---------------------------- MODULE Spec2Model ----------------------------
(***************************************************************************)
(* Model of solana-py's stake program instruction layer:                   *)
(*   src/src/solana/_layouts/stake_instructions.py  (the construct layout) *)
(*   src/src/solana/stake_program.py                (the builders)         *)
(*                                                                         *)
(* Python integers are unbounded and the wire fields are 32 and 64 bits    *)
(* wide, so an integer is kept as a sign and a magnitude of five 16-bit    *)
(* limbs, least significant first (four limbs are 64 bits; the fifth holds *)
(* what does not fit in 64 bits).  A byte string is a sequence of 0..255.  *)
(***************************************************************************)
EXTENDS Integers, Sequences, FiniteSets, TLC

VARIABLES pc, fn, args, ret

vars == <<pc, fn, args, ret>>

----------------------------------------------------------------------------
(* Bounds of the model. *)

\* Number of caller-chosen public keys besides the well-known addresses.
NumKeys == 2

\* Largest number of bytes appended after a well-formed instruction when
\* the input of a parse is chosen.
MaxTrailing == 2

----------------------------------------------------------------------------
(* Python values. *)

\* None
None == [py |-> "None"]

\* An int: sign and magnitude, limbs least significant first.
PyInt(neg, mag) == [neg |-> neg, mag |-> mag]

Nat2Int(n) == PyInt(FALSE, <<n % 65536, n \div 65536, 0, 0, 0>>)

IsZero(m) == \A i \in DOMAIN m : m[i] = 0

\* m + 1 (the carry out of the last limb is dropped)
RECURSIVE Inc(_)
Inc(m) ==
    IF m = <<>> THEN <<>>
    ELSE IF Head(m) = 65535 THEN <<0>> \o Inc(Tail(m))
    ELSE <<Head(m) + 1>> \o Tail(m)

\* m - 1, for m # 0
RECURSIVE Dec(_)
Dec(m) ==
    IF m = <<>> THEN <<>>
    ELSE IF Head(m) = 0 THEN <<65535>> \o Dec(Tail(m))
    ELSE <<Head(m) - 1>> \o Tail(m)

\* bitwise complement of every limb
Compl(m) == [i \in DOMAIN m |-> 65535 - m[i]]

\* the limbs of m above the first n are zero: 0 <= m < 2^(16 n)
FitsLimbs(m, n) == \A i \in DOMAIN m : i > n => m[i] = 0

\* little-endian bytes of the first n limbs
RECURSIVE LimbBytes(_, _)
LimbBytes(m, n) ==
    IF n = 0 THEN <<>>
    ELSE <<Head(m) % 256, Head(m) \div 256>> \o LimbBytes(Tail(m), n - 1)

\* limbs of a little-endian byte string of even length
RECURSIVE BytesLimbs(_)
BytesLimbs(b) ==
    IF Len(b) < 2 THEN <<>>
    ELSE <<b[1] + 256 * b[2]>> \o BytesLimbs(SubSeq(b, 3, Len(b)))

\* pad a magnitude with zero limbs up to five
Pad5(m) == m \o [i \in 1..(5 - Len(m)) |-> 0]

----------------------------------------------------------------------------
(* construct: results of build and parse.  A build yields the bytes written *)
(* or an error; a parse reads from a position of the stream and yields the  *)
(* value and the position after it, or an error.                            *)

Built(b) == [ok |-> TRUE, bytes |-> b]
BuildError(e) == [ok |-> FALSE, error |-> e]

Parsed(v, p) == [ok |-> TRUE, value |-> v, pos |-> p]
ParseError(e) == [ok |-> FALSE, error |-> e]

\* stream.read(n): exactly n bytes must remain
CanRead(data, pos, n) == pos + n - 1 <= Len(data)
Read(data, pos, n) == SubSeq(data, pos, pos + n - 1)

\* Int32ul: struct "<L"
Int32ul_build(x) ==
    IF ~x.neg /\ FitsLimbs(x.mag, 2)
    THEN Built(LimbBytes(x.mag, 2))
    ELSE BuildError("FormatFieldError")

Int32ul_parse(data, pos) ==
    IF CanRead(data, pos, 4)
    THEN Parsed(PyInt(FALSE, Pad5(BytesLimbs(Read(data, pos, 4)))), pos + 4)
    ELSE ParseError("StreamError")

\* Int64ul: struct "<Q"
Int64ul_build(x) ==
    IF ~x.neg /\ FitsLimbs(x.mag, 4)
    THEN Built(LimbBytes(x.mag, 4))
    ELSE BuildError("FormatFieldError")

Int64ul_parse(data, pos) ==
    IF CanRead(data, pos, 8)
    THEN Parsed(PyInt(FALSE, Pad5(BytesLimbs(Read(data, pos, 8)))), pos + 8)
    ELSE ParseError("StreamError")

\* Int64sl: struct "<q", two's complement, -2^63 <= x < 2^63
InRangeS64(x) ==
    /\ FitsLimbs(x.mag, 4)
    /\ \/ x.mag[4] < 32768
       \/ x.neg /\ x.mag[4] = 32768 /\ IsZero(SubSeq(x.mag, 1, 3))

Int64sl_build(x) ==
    IF ~InRangeS64(x) THEN BuildError("FormatFieldError")
    ELSE IF x.neg THEN Built(LimbBytes(Compl(Dec(x.mag)), 4))
    ELSE Built(LimbBytes(x.mag, 4))

Int64sl_parse(data, pos) ==
    IF ~CanRead(data, pos, 8) THEN ParseError("StreamError")
    ELSE LET u == BytesLimbs(Read(data, pos, 8))
         IN  IF u[4] >= 32768
             THEN Parsed(PyInt(TRUE, Pad5(Inc(Compl(u)))), pos + 8)
             ELSE Parsed(PyInt(FALSE, Pad5(u)), pos + 8)

\* PUBLIC_KEY_LAYOUT: Bytes(32), the raw 32 bytes of a key
PUBLIC_KEY_LAYOUT_build(b) ==
    IF Len(b) = 32 THEN Built(b) ELSE BuildError("StreamError")

PUBLIC_KEY_LAYOUT_parse(data, pos) ==
    IF CanRead(data, pos, 32)
    THEN Parsed(Read(data, pos, 32), pos + 32)
    ELSE ParseError("StreamError")

\* Pass: builds nothing whatever the object, parses to None
Pass_build(obj) == Built(<<>>)
Pass_parse(data, pos) == Parsed(None, pos)

\* A Struct builds its fields in declaration order and stops at the first
\* error; parts is the sequence of the fields' build results.
RECURSIVE Struct_build(_)
Struct_build(parts) ==
    IF parts = <<>> THEN Built(<<>>)
    ELSE IF ~Head(parts).ok THEN Head(parts)
    ELSE LET rest == Struct_build(Tail(parts))
         IN  IF rest.ok THEN Built(Head(parts).bytes \o rest.bytes) ELSE rest

\* a Struct is built from a mapping that holds every field
HasFields(obj, names) == names \subseteq DOMAIN obj

----------------------------------------------------------------------------
(* src/src/solana/_layouts/stake_instructions.py *)

\* class StakeInstructionType(IntEnum)
INITIALIZE_STAKE_ACCOUNT == 0
DELEGATE_STAKE == 1
DEACTIVATE == 2
WITHDRAW_STAKE == 3

\* _AUTHORIZED_LAYOUT
AUTHORIZED_LAYOUT_build(obj) ==
    IF ~HasFields(obj, {"staker", "withdrawer"}) THEN BuildError("KeyError")
    ELSE Struct_build(<<PUBLIC_KEY_LAYOUT_build(obj.staker),
                        PUBLIC_KEY_LAYOUT_build(obj.withdrawer)>>)

AUTHORIZED_LAYOUT_parse(data, pos) ==
    LET s == PUBLIC_KEY_LAYOUT_parse(data, pos) IN
    IF ~s.ok THEN s ELSE
    LET w == PUBLIC_KEY_LAYOUT_parse(data, s.pos) IN
    IF ~w.ok THEN w ELSE
    Parsed([staker |-> s.value, withdrawer |-> w.value], w.pos)

\* faulty variant of _LOCKUP_LAYOUT: epoch declared before unix_timestamp
LOCKUP_LAYOUT_build_epoch_first(obj) ==
    IF ~HasFields(obj, {"unix_timestamp", "epoch", "custodian"})
    THEN BuildError("KeyError")
    ELSE Struct_build(<<Int64ul_build(obj.epoch),
                        Int64sl_build(obj.unix_timestamp),
                        PUBLIC_KEY_LAYOUT_build(obj.custodian)>>)

\* faulty variant of _LOCKUP_LAYOUT: unix_timestamp declared Int64ul, so
\* read back unsigned
LOCKUP_LAYOUT_parse_unsigned_timestamp(data, pos) ==
    LET t == Int64ul_parse(data, pos) IN
    IF ~t.ok THEN t ELSE
    LET e == Int64ul_parse(data, t.pos) IN
    IF ~e.ok THEN e ELSE
    LET c == PUBLIC_KEY_LAYOUT_parse(data, e.pos) IN
    IF ~c.ok THEN c ELSE
    Parsed([unix_timestamp |-> t.value, epoch |-> e.value,
            custodian |-> c.value], c.pos)

\* _LOCKUP_LAYOUT
LOCKUP_LAYOUT_build(obj) ==
    IF ~HasFields(obj, {"unix_timestamp", "epoch", "custodian"})
    THEN BuildError("KeyError")
    ELSE Struct_build(<<Int64sl_build(obj.unix_timestamp),
                        Int64ul_build(obj.epoch),
                        PUBLIC_KEY_LAYOUT_build(obj.custodian)>>)

LOCKUP_LAYOUT_parse(data, pos) ==
    LET t == Int64sl_parse(data, pos) IN
    IF ~t.ok THEN t ELSE
    LET e == Int64ul_parse(data, t.pos) IN
    IF ~e.ok THEN e ELSE
    LET c == PUBLIC_KEY_LAYOUT_parse(data, e.pos) IN
    IF ~c.ok THEN c ELSE
    Parsed([unix_timestamp |-> t.value, epoch |-> e.value,
            custodian |-> c.value], c.pos)

\* _INITIALIZE_STAKE_ACCOUNT_LAYOUT
INITIALIZE_STAKE_ACCOUNT_LAYOUT_build(obj) ==
    IF ~HasFields(obj, {"authorized", "lockup"}) THEN BuildError("KeyError")
    ELSE Struct_build(<<AUTHORIZED_LAYOUT_build(obj.authorized),
                        LOCKUP_LAYOUT_build(obj.lockup)>>)

INITIALIZE_STAKE_ACCOUNT_LAYOUT_parse(data, pos) ==
    LET a == AUTHORIZED_LAYOUT_parse(data, pos) IN
    IF ~a.ok THEN a ELSE
    LET l == LOCKUP_LAYOUT_parse(data, a.pos) IN
    IF ~l.ok THEN l ELSE
    Parsed([authorized |-> a.value, lockup |-> l.value], l.pos)

\* _WITHDRAW_STAKE_ACCOUNT_LAYOUT
WITHDRAW_STAKE_ACCOUNT_LAYOUT_build(obj) ==
    IF ~HasFields(obj, {"lamports"}) THEN BuildError("KeyError")
    ELSE Struct_build(<<Int64ul_build(obj.lamports)>>)

WITHDRAW_STAKE_ACCOUNT_LAYOUT_parse(data, pos) ==
    LET l == Int64ul_parse(data, pos) IN
    IF ~l.ok THEN l ELSE Parsed([lamports |-> l.value], l.pos)

\* faulty variant of the Switch: a key the table does not hold is an error
Switch_build_no_default(key, obj) ==
    IF key = Nat2Int(INITIALIZE_STAKE_ACCOUNT)
    THEN INITIALIZE_STAKE_ACCOUNT_LAYOUT_build(obj)
    ELSE IF key = Nat2Int(DELEGATE_STAKE) THEN Pass_build(obj)
    ELSE IF key = Nat2Int(WITHDRAW_STAKE)
    THEN WITHDRAW_STAKE_ACCOUNT_LAYOUT_build(obj)
    ELSE BuildError("SwitchError")

\* "args" / Switch(this.instruction_type, {...}): the three cases of the
\* table; a key the table does not hold takes the Switch's default, Pass.
Switch_build(key, obj) ==
    IF key = Nat2Int(INITIALIZE_STAKE_ACCOUNT)
    THEN INITIALIZE_STAKE_ACCOUNT_LAYOUT_build(obj)
    ELSE IF key = Nat2Int(DELEGATE_STAKE) THEN Pass_build(obj)
    ELSE IF key = Nat2Int(WITHDRAW_STAKE)
    THEN WITHDRAW_STAKE_ACCOUNT_LAYOUT_build(obj)
    ELSE Pass_build(obj)

Switch_parse(key, data, pos) ==
    IF key = Nat2Int(INITIALIZE_STAKE_ACCOUNT)
    THEN INITIALIZE_STAKE_ACCOUNT_LAYOUT_parse(data, pos)
    ELSE IF key = Nat2Int(DELEGATE_STAKE) THEN Pass_parse(data, pos)
    ELSE IF key = Nat2Int(WITHDRAW_STAKE)
    THEN WITHDRAW_STAKE_ACCOUNT_LAYOUT_parse(data, pos)
    ELSE Pass_parse(data, pos)

\* STAKE_INSTRUCTIONS_LAYOUT.build(obj)
STAKE_INSTRUCTIONS_LAYOUT_build(obj) ==
    IF ~HasFields(obj, {"instruction_type", "args"}) THEN BuildError("KeyError")
    ELSE Struct_build(<<Int32ul_build(obj.instruction_type),
                        Switch_build(obj.instruction_type, obj.args)>>)

\* STAKE_INSTRUCTIONS_LAYOUT.parse(data): reads from the start of data;
\* pos is the position after the last byte read, and what follows it is
\* never looked at.
STAKE_INSTRUCTIONS_LAYOUT_parse(data) ==
    LET t == Int32ul_parse(data, 1) IN
    IF ~t.ok THEN t ELSE
    LET a == Switch_parse(t.value, data, t.pos) IN
    IF ~a.ok THEN a ELSE
    Parsed([instruction_type |-> t.value, args |-> a.value], a.pos)

----------------------------------------------------------------------------
(* Collaborators of src/src/solana/stake_program.py: the key type, the     *)
(* well-known addresses, the transaction container and the system          *)
(* program's account-creation builders.                                    *)

\* PublicKey: a 32-byte identity key
PublicKey(raw) == [key |-> raw]

\* bytes(PublicKey): the raw 32 bytes
PublicKey_bytes(k) == k.key

\* sysvar.SYSVAR_CLOCK_PUBKEY, "SysvarC1ock11111111111111111111111111111111"
SYSVAR_CLOCK_PUBKEY ==
    PublicKey(<<6, 167, 213, 23, 24, 199, 116, 201, 40, 86, 99, 152, 105, 29,
                94, 182, 139, 94, 184, 163, 155, 75, 109, 92, 115, 85, 91, 33,
                0, 0, 0, 0>>)

\* sysvar.SYSVAR_RENT_PUBKEY, "SysvarRent111111111111111111111111111111111"
SYSVAR_RENT_PUBKEY ==
    PublicKey(<<6, 167, 213, 23, 25, 44, 92, 81, 33, 140, 201, 76, 61, 74,
                241, 127, 88, 218, 238, 8, 155, 161, 253, 68, 227, 219, 217,
                138, 0, 0, 0, 0>>)

\* sysvar.SYSVAR_STAKE_HISTORY_PUBKEY,
\* "SysvarStakeHistory1111111111111111111111111"
SYSVAR_STAKE_HISTORY_PUBKEY ==
    PublicKey(<<6, 167, 213, 23, 25, 53, 132, 208, 254, 237, 155, 179, 67, 29,
                19, 32, 107, 229, 68, 40, 27, 87, 184, 86, 108, 197, 55, 95,
                244, 0, 0, 0>>)

\* AccountMeta(pubkey, is_signer, is_writable)
AccountMeta(pubkey, is_signer, is_writable) ==
    [pubkey |-> pubkey, is_signer |-> is_signer, is_writable |-> is_writable]

\* TransactionInstruction(keys, program_id, data)
TransactionInstruction(keys, program_id, data) ==
    [keys |-> keys, program_id |-> program_id, data |-> data]

\* Transaction(fee_payer): no instructions yet
Transaction(fee_payer) == [fee_payer |-> fee_payer, instructions |-> <<>>]

\* Transaction.add(*instructions): appends them in the order given
Transaction_add(tx, ixs) == [tx EXCEPT !.instructions = @ \o ixs]

\* A call returns a value or raises.
Return(v) == [ok |-> TRUE, value |-> v]
Raise(e) == [ok |-> FALSE, error |-> e]

----------------------------------------------------------------------------
(* src/src/solana/stake_program.py *)

\* CONFIG_STAKE_PUBKEY, "StakeConfig11111111111111111111111111111111"
CONFIG_STAKE_PUBKEY ==
    PublicKey(<<6, 161, 216, 23, 165, 2, 5, 11, 104, 7, 145, 230, 206, 109,
                184, 142, 30, 91, 113, 80, 246, 31, 198, 121, 10, 78, 180,
                209, 0, 0, 0, 0>>)

\* SYS_PROGRAM_ID, "11111111111111111111111111111111"
SYS_PROGRAM_ID == PublicKey([i \in 1..32 |-> 0])

\* STAKE_PROGRAM_ID, "Stake11111111111111111111111111111111111111"
STAKE_PROGRAM_ID ==
    PublicKey(<<6, 161, 216, 23, 145, 55, 84, 42, 152, 52, 55, 189, 254, 42,
                122, 178, 85, 127, 83, 92, 138, 120, 114, 43, 104, 164, 157,
                192, 0, 0, 0, 0>>)

\* space=200 of the allocated stake account
STAKE_ACCOUNT_SPACE == 200

\* system_program.create_account(CreateAccountParams(...)): the allocation
\* instruction, addressed to the system program, of these parameters
create_account(params) ==
    [kind |-> "create_account", program_id |-> SYS_PROGRAM_ID,
     params |-> params]

\* system_program.create_account_with_seed(CreateAccountWithSeedParams(...))
create_account_with_seed(params) ==
    [kind |-> "create_account_with_seed", program_id |-> SYS_PROGRAM_ID,
     params |-> params]

\* A NamedTuple class has no defaults: its constructor raises TypeError
\* unless every field is given.
NamedTuple_new(fields, given) ==
    IF DOMAIN given = fields THEN Return(given) ELSE Raise("TypeError")

\* class Authorized(NamedTuple)
Authorized(staker, withdrawer) ==
    [staker |-> staker, withdrawer |-> withdrawer]

\* class Lockup(NamedTuple)
Lockup(unix_timestamp, epoch, custodian) ==
    [unix_timestamp |-> unix_timestamp, epoch |-> epoch,
     custodian |-> custodian]

\* class InitializeStakeParams(NamedTuple)
InitializeStakeParams(given) ==
    NamedTuple_new({"from_pubkey", "stake_pubkey", "authorized", "lockup"},
                   given)

\* class DelegateStakeParams(NamedTuple)
DelegateStakeParams(given) ==
    NamedTuple_new({"stake_pubkey", "authorized_pubkey", "vote_pubkey"}, given)

\* isinstance(params, CreateStakeAccountParams) or
\* isinstance(params, CreateAccountAndDelegateStakeParams): the records'
\* classes are kept in the field "class"
IsUnseeded(params) ==
    params.class \in {"CreateStakeAccountParams",
                      "CreateAccountAndDelegateStakeParams"}

\* faulty variant of withdraw_stake: the account list of the stake
\* program's Withdraw (stake, destination, clock, stake history, withdrawer)
withdraw_stake_expected_accounts(params) ==
    LET data == STAKE_INSTRUCTIONS_LAYOUT_build(
                    [instruction_type |-> Nat2Int(WITHDRAW_STAKE),
                     args |-> [lamports |-> params.lamports]])
    IN  IF ~data.ok THEN Raise(data.error)
        ELSE Return(TransactionInstruction(
                 <<AccountMeta(params.stake_pubkey, FALSE, TRUE),
                   AccountMeta(params.to_pubkey, FALSE, TRUE),
                   AccountMeta(SYSVAR_CLOCK_PUBKEY, FALSE, FALSE),
                   AccountMeta(SYSVAR_STAKE_HISTORY_PUBKEY, FALSE, FALSE),
                   AccountMeta(params.withdrawer_pubkey, TRUE, FALSE)>>,
                 SYS_PROGRAM_ID,
                 data.bytes))

\* def withdraw_stake(params)
withdraw_stake(params) ==
    LET data == STAKE_INSTRUCTIONS_LAYOUT_build(
                    [instruction_type |-> Nat2Int(WITHDRAW_STAKE),
                     args |-> [lamports |-> params.lamports]])
    IN  IF ~data.ok THEN Raise(data.error)
        ELSE Return(TransactionInstruction(
                 <<AccountMeta(params.stake_pubkey, TRUE, TRUE),
                   AccountMeta(params.to_pubkey, FALSE, TRUE),
                   AccountMeta(params.to_pubkey, FALSE, TRUE),
                   AccountMeta(params.to_pubkey, FALSE, TRUE),
                   AccountMeta(params.to_pubkey, FALSE, TRUE)>>,
                 SYS_PROGRAM_ID,
                 data.bytes))

\* faulty variant of delegate_stake_instruction: the authority ahead of the
\* sysvars, as the second account
delegate_stake_instruction_authority_second(params) ==
    LET data == STAKE_INSTRUCTIONS_LAYOUT_build(
                    [instruction_type |-> Nat2Int(DELEGATE_STAKE),
                     args |-> <<>>])
    IN  IF ~data.ok THEN Raise(data.error)
        ELSE Return(TransactionInstruction(
                 <<AccountMeta(params.stake_pubkey, FALSE, TRUE),
                   AccountMeta(params.authorized_pubkey, TRUE, FALSE),
                   AccountMeta(params.vote_pubkey, FALSE, FALSE),
                   AccountMeta(SYSVAR_CLOCK_PUBKEY, FALSE, FALSE),
                   AccountMeta(SYSVAR_STAKE_HISTORY_PUBKEY, FALSE, FALSE),
                   AccountMeta(CONFIG_STAKE_PUBKEY, FALSE, FALSE)>>,
                 STAKE_PROGRAM_ID,
                 data.bytes))

\* def delegate_stake_instruction(params)
delegate_stake_instruction(params) ==
    LET data == STAKE_INSTRUCTIONS_LAYOUT_build(
                    [instruction_type |-> Nat2Int(DELEGATE_STAKE),
                     args |-> <<>>])
    IN  IF ~data.ok THEN Raise(data.error)
        ELSE Return(TransactionInstruction(
                 <<AccountMeta(params.stake_pubkey, FALSE, TRUE),
                   AccountMeta(params.vote_pubkey, FALSE, FALSE),
                   AccountMeta(SYSVAR_CLOCK_PUBKEY, FALSE, FALSE),
                   AccountMeta(SYSVAR_STAKE_HISTORY_PUBKEY, FALSE, FALSE),
                   AccountMeta(CONFIG_STAKE_PUBKEY, FALSE, FALSE),
                   AccountMeta(params.authorized_pubkey, TRUE, FALSE)>>,
                 STAKE_PROGRAM_ID,
                 data.bytes))

\* def delegate_stake(params)
delegate_stake(params) ==
    LET ix == delegate_stake_instruction(params)
    IN  IF ~ix.ok THEN ix
        ELSE Return(Transaction_add(Transaction(None), <<ix.value>>))

\* def initialize_stake(params)
initialize_stake(params) ==
    LET authorized == [staker |-> PublicKey_bytes(params.authorized.staker),
                       withdrawer |->
                           PublicKey_bytes(params.authorized.withdrawer)]
        lockup == [unix_timestamp |-> params.lockup.unix_timestamp,
                   epoch |-> params.lockup.epoch,
                   custodian |-> PublicKey_bytes(params.lockup.custodian)]
        data == STAKE_INSTRUCTIONS_LAYOUT_build(
                    [instruction_type |-> Nat2Int(INITIALIZE_STAKE_ACCOUNT),
                     args |-> [authorized |-> authorized, lockup |-> lockup]])
    IN  IF ~data.ok THEN Raise(data.error)
        ELSE Return(TransactionInstruction(
                 <<AccountMeta(params.stake_pubkey, TRUE, TRUE),
                   AccountMeta(SYSVAR_RENT_PUBKEY, FALSE, FALSE)>>,
                 STAKE_PROGRAM_ID,
                 data.bytes))

\* def _create_stake_account_instruction(params)
create_stake_account_instruction(params) ==
    IF IsUnseeded(params)
    THEN create_account(
             [from_pubkey |-> params.from_pubkey,
              new_account_pubkey |-> params.stake_pubkey,
              lamports |-> params.lamports,
              space |-> STAKE_ACCOUNT_SPACE,
              program_id |-> STAKE_PROGRAM_ID])
    ELSE create_account_with_seed(
             [from_pubkey |-> params.from_pubkey,
              new_account_pubkey |-> params.stake_pubkey,
              base_pubkey |-> params.base_pubkey,
              seed |-> params.seed,
              lamports |-> params.lamports,
              space |-> STAKE_ACCOUNT_SPACE,
              program_id |-> STAKE_PROGRAM_ID])

\* faulty variant of create_stake_account: the instructions added in the
\* order they are made, initialize before the allocation
create_stake_account_initialize_first(params) ==
    LET ip == InitializeStakeParams(
                  [from_pubkey |-> params.from_pubkey,
                   stake_pubkey |-> params.stake_pubkey,
                   authorized |-> params.authorized,
                   lockup |-> params.lockup])
    IN  IF ~ip.ok THEN ip ELSE
        LET initialize_stake_instruction == initialize_stake(ip.value)
        IN  IF ~initialize_stake_instruction.ok
            THEN initialize_stake_instruction ELSE
        LET create_account_instruction ==
                create_stake_account_instruction(params)
        IN  Return(Transaction_add(Transaction(None),
                                   <<initialize_stake_instruction.value,
                                     create_account_instruction>>))

\* def create_stake_account(params)
create_stake_account(params) ==
    LET ip == InitializeStakeParams(
                  [from_pubkey |-> params.from_pubkey,
                   stake_pubkey |-> params.stake_pubkey,
                   authorized |-> params.authorized,
                   lockup |-> params.lockup])
    IN  IF ~ip.ok THEN ip ELSE
        LET initialize_stake_instruction == initialize_stake(ip.value)
        IN  IF ~initialize_stake_instruction.ok
            THEN initialize_stake_instruction ELSE
        LET create_account_instruction ==
                create_stake_account_instruction(params)
        IN  Return(Transaction_add(Transaction(None),
                                   <<create_account_instruction,
                                     initialize_stake_instruction.value>>))

\* def create_account_and_delegate_stake(params): InitializeStakeParams is
\* constructed without from_pubkey, and params.authorized_pubkey is read
\* though neither parameter class has that field.
create_account_and_delegate_stake(params) ==
    LET ip == InitializeStakeParams(
                  [stake_pubkey |-> params.stake_pubkey,
                   authorized |-> params.authorized,
                   lockup |-> params.lockup])
    IN  IF ~ip.ok THEN ip ELSE
        LET initialize_stake_instruction == initialize_stake(ip.value)
        IN  IF ~initialize_stake_instruction.ok
            THEN initialize_stake_instruction ELSE
        LET create_account_instruction ==
                create_stake_account_instruction(params)
        IN  IF "authorized_pubkey" \notin DOMAIN params
            THEN Raise("AttributeError") ELSE
        LET dp == DelegateStakeParams(
                      [stake_pubkey |-> params.stake_pubkey,
                       authorized_pubkey |-> params.authorized_pubkey,
                       vote_pubkey |-> params.vote_pubkey])
        IN  IF ~dp.ok THEN dp ELSE
        LET delegate_stake_tx == delegate_stake(dp.value)
        IN  IF ~delegate_stake_tx.ok THEN delegate_stake_tx ELSE
            Return(Transaction_add(Transaction(params.from_pubkey),
                                   <<create_account_instruction,
                                     initialize_stake_instruction.value>>))

\* def deactivate_stake_instruction(params)
deactivate_stake_instruction(params) ==
    LET data == STAKE_INSTRUCTIONS_LAYOUT_build(
                    [instruction_type |-> Nat2Int(DEACTIVATE),
                     args |-> <<>>])
    IN  IF ~data.ok THEN Raise(data.error)
        ELSE Return(TransactionInstruction(
                 <<AccountMeta(params.stake_pubkey, FALSE, TRUE),
                   AccountMeta(SYSVAR_CLOCK_PUBKEY, FALSE, FALSE),
                   AccountMeta(params.authorized_pubkey, TRUE, FALSE)>>,
                 STAKE_PROGRAM_ID,
                 data.bytes))

\* def deactivate_stake(params)
deactivate_stake(params) ==
    LET ix == deactivate_stake_instruction(params)
    IN  IF ~ix.ok THEN ix
        ELSE Return(Transaction_add(Transaction(None), <<ix.value>>))

\* def test_initialize_stake(params)
test_initialize_stake(params) ==
    LET ip == InitializeStakeParams(
                  [from_pubkey |-> params.from_pubkey,
                   stake_pubkey |-> params.stake_pubkey,
                   authorized |-> params.authorized,
                   lockup |-> params.lockup])
    IN  IF ~ip.ok THEN ip ELSE
        LET initialize_stake_instruction == initialize_stake(ip.value)
        IN  IF ~initialize_stake_instruction.ok
            THEN initialize_stake_instruction
            ELSE Return(Transaction_add(
                     Transaction(params.from_pubkey),
                     <<initialize_stake_instruction.value>>))

----------------------------------------------------------------------------
(* The values the callers pass. *)

\* caller-chosen keys: 32 bytes that differ from key to key and from byte
\* to byte, with bytes above 127 among them
UserKey(i) == PublicKey([j \in 1..32 |-> (i * 83 + j * 7) % 256])
UserKeys == {UserKey(i) : i \in 1..NumKeys}

WellKnownKeys ==
    {SYS_PROGRAM_ID, STAKE_PROGRAM_ID, CONFIG_STAKE_PUBKEY,
     SYSVAR_CLOCK_PUBKEY, SYSVAR_RENT_PUBKEY, SYSVAR_STAKE_HISTORY_PUBKEY}

AllKeys == UserKeys \cup WellKnownKeys

\* magnitudes: 0, 1, 2^16, 0x0102030405060708, 2^63 - 1, 2^63, 2^63 + 1,
\* 2^64 - 1, 2^64
M_Zero == <<0, 0, 0, 0, 0>>
M_One == <<1, 0, 0, 0, 0>>
M_Pow16 == <<0, 1, 0, 0, 0>>
M_Mixed == <<1800, 1286, 772, 258, 0>>
M_MaxS64 == <<65535, 65535, 65535, 32767, 0>>
M_Pow63 == <<0, 0, 0, 32768, 0>>
M_Pow63Plus1 == <<1, 0, 0, 32768, 0>>
M_MaxU64 == <<65535, 65535, 65535, 65535, 0>>
M_Pow64 == <<0, 0, 0, 0, 1>>

\* ints of the signed 64-bit range, both ends among them
ValidS64 ==
    {PyInt(FALSE, M_Zero), PyInt(FALSE, M_One), PyInt(TRUE, M_One),
     PyInt(FALSE, M_Mixed), PyInt(TRUE, M_Mixed), PyInt(TRUE, M_Pow16),
     PyInt(FALSE, M_MaxS64), PyInt(TRUE, M_Pow63)}

\* ints outside the signed 64-bit range
InvalidS64 ==
    {PyInt(FALSE, M_Pow63), PyInt(TRUE, M_Pow63Plus1), PyInt(FALSE, M_Pow64)}

\* ints of the unsigned 64-bit range, both ends among them
ValidU64 ==
    {PyInt(FALSE, M_Zero), PyInt(FALSE, M_One), PyInt(FALSE, M_Mixed),
     PyInt(FALSE, M_Pow63), PyInt(FALSE, M_MaxU64)}

\* ints outside the unsigned 64-bit range
InvalidU64 == {PyInt(TRUE, M_One), PyInt(FALSE, M_Pow64)}

Authorizeds == {Authorized(s, w) : s \in UserKeys, w \in UserKeys}

Lockups ==
    {Lockup(t, e, c) : t \in ValidS64, e \in ValidU64, c \in UserKeys}

\* the lockups the composite builders are called with: both signs of the
\* timestamp, both ends of the epoch
SomeLockups ==
    {Lockup(t, e, c) : t \in {PyInt(FALSE, M_Zero), PyInt(TRUE, M_Pow63)},
                       e \in {PyInt(FALSE, M_Zero), PyInt(FALSE, M_MaxU64)},
                       c \in UserKeys}

SomeLamports == {PyInt(FALSE, M_One), PyInt(FALSE, M_MaxU64)}

Seeds == {"", "stake:0"}

\* the mapping initialize_stake hands to the layout
InitializeArgs(staker, withdrawer, t, e, custodian) ==
    [authorized |-> [staker |-> staker.key, withdrawer |-> withdrawer.key],
     lockup |-> [unix_timestamp |-> t, epoch |-> e,
                 custodian |-> custodian.key]]

Instruction(variant, payload) ==
    [instruction_type |-> Nat2Int(variant), args |-> payload]

\* valid (variant, payload) pairs of the three variants of the table
ValidInitialize ==
    {Instruction(INITIALIZE_STAKE_ACCOUNT, InitializeArgs(s, w, t, e, c)) :
        s \in UserKeys, w \in UserKeys, t \in ValidS64, e \in ValidU64,
        c \in UserKeys}

ValidDelegate == {Instruction(DELEGATE_STAKE, <<>>)}

ValidWithdraw ==
    {Instruction(WITHDRAW_STAKE, [lamports |-> l]) : l \in ValidU64}

ValidDeactivate == {Instruction(DEACTIVATE, <<>>)}

ValidObjects ==
    ValidInitialize \cup ValidDelegate \cup ValidWithdraw \cup ValidDeactivate

\* objects a build refuses, or whose payload is not the variant's
OtherObjects ==
    {Instruction(INITIALIZE_STAKE_ACCOUNT,
                 InitializeArgs(k, k, t, e, k)) :
        k \in UserKeys, t \in InvalidS64, e \in ValidU64}
    \cup
    {Instruction(INITIALIZE_STAKE_ACCOUNT,
                 InitializeArgs(k, k, t, e, k)) :
        k \in UserKeys, t \in ValidS64, e \in InvalidU64}
    \cup {Instruction(WITHDRAW_STAKE, [lamports |-> l]) : l \in InvalidU64}
    \cup {Instruction(INITIALIZE_STAKE_ACCOUNT, <<>>),
          Instruction(WITHDRAW_STAKE, <<>>),
          Instruction(DELEGATE_STAKE, [lamports |-> PyInt(FALSE, M_One)]),
          Instruction(WITHDRAW_STAKE + 1, <<>>),
          [instruction_type |-> PyInt(FALSE, M_Pow16), args |-> <<>>],
          [instruction_type |-> PyInt(FALSE, M_Pow63), args |-> <<>>],
          [instruction_type |-> PyInt(TRUE, M_One), args |-> <<>>]}

\* byte strings handed to parse: well-formed instructions, each also cut
\* short and followed by further bytes, and the same under discriminants
\* the enumeration does not hold
FrameObjects ==
    {x \in ValidObjects :
        DOMAIN x.args = {} \/ "lamports" \in DOMAIN x.args
        \/ x.args.lockup.epoch = PyInt(FALSE, M_Mixed)}

Frames ==
    {r.bytes : r \in {b \in {STAKE_INSTRUCTIONS_LAYOUT_build(o) :
                                o \in FrameObjects} : b.ok}}

RECURSIVE SeqsUpTo(_, _)
SeqsUpTo(S, n) ==
    IF n = 0 THEN {<<>>}
    ELSE LET shorter == SeqsUpTo(S, n - 1)
         IN  shorter \cup {<<b>> \o q : b \in S, q \in shorter}

Trailers == SeqsUpTo({0, 255}, MaxTrailing)

CutLengths == {0, 1, 3, 4, 5, 10, 11, 115}

UnknownDiscriminants ==
    {<<255, 255, 255, 255>>, <<4, 0, 0, 0>>, <<0, 1, 0, 0>>, <<3, 0, 0, 1>>}

ParseInputs ==
    {f \o t : f \in Frames, t \in Trailers}
    \cup UNION {{SubSeq(f, 1, n) : n \in {c \in CutLengths : c < Len(f)}} :
                   f \in Frames}
    \cup {d \o SubSeq(f, 5, Len(f)) \o t :
             d \in UnknownDiscriminants,
             f \in {g \in Frames :
                       \/ Len(g) < 116
                       \/ SubSeq(g, 69, 76) = <<0, 0, 0, 0, 0, 0, 0, 0>>},
             t \in Trailers}

----------------------------------------------------------------------------
(* The state machine.  The layer keeps no state between calls: a state is  *)
(* the call in progress (the function, its argument, what it returned or   *)
(* raised), or none.                                                       *)

Init ==
    /\ pc = "idle"
    /\ fn = "none"
    /\ args = None
    /\ ret = None

\* STAKE_INSTRUCTIONS_LAYOUT.build(obj)
Build ==
    /\ pc = "idle"
    /\ pc' = "returned"
    /\ fn' = "build"
    /\ \E obj \in ValidObjects \cup OtherObjects :
        /\ args' = obj
        /\ ret' = STAKE_INSTRUCTIONS_LAYOUT_build(obj)

\* STAKE_INSTRUCTIONS_LAYOUT.parse(data)
Parse ==
    /\ pc = "idle"
    /\ pc' = "returned"
    /\ fn' = "parse"
    /\ \E data \in ParseInputs :
        /\ args' = data
        /\ ret' = STAKE_INSTRUCTIONS_LAYOUT_parse(data)

\* STAKE_INSTRUCTIONS_LAYOUT.parse(STAKE_INSTRUCTIONS_LAYOUT.build(obj))
RoundTrip ==
    /\ pc = "idle"
    /\ pc' = "returned"
    /\ fn' = "roundtrip"
    /\ \E obj \in ValidObjects :
        LET b == STAKE_INSTRUCTIONS_LAYOUT_build(obj)
        IN  /\ args' = obj
            /\ ret' = IF b.ok THEN STAKE_INSTRUCTIONS_LAYOUT_parse(b.bytes)
                      ELSE b

InitializeStake ==
    /\ pc = "idle"
    /\ pc' = "returned"
    /\ fn' = "initialize_stake"
    /\ \E f \in UserKeys, s \in UserKeys, a \in Authorizeds, l \in Lockups :
        LET params == [from_pubkey |-> f, stake_pubkey |-> s,
                       authorized |-> a, lockup |-> l]
        IN  /\ args' = params
            /\ ret' = initialize_stake(params)

DelegateStakeInstruction ==
    /\ pc = "idle"
    /\ pc' = "returned"
    /\ fn' = "delegate_stake_instruction"
    /\ \E s \in AllKeys, a \in AllKeys, v \in AllKeys :
        LET params == [stake_pubkey |-> s, authorized_pubkey |-> a,
                       vote_pubkey |-> v]
        IN  /\ args' = params
            /\ ret' = delegate_stake_instruction(params)

DelegateStake ==
    /\ pc = "idle"
    /\ pc' = "returned"
    /\ fn' = "delegate_stake"
    /\ \E s \in UserKeys, a \in UserKeys, v \in UserKeys :
        LET params == [stake_pubkey |-> s, authorized_pubkey |-> a,
                       vote_pubkey |-> v]
        IN  /\ args' = params
            /\ ret' = delegate_stake(params)

DeactivateStakeInstruction ==
    /\ pc = "idle"
    /\ pc' = "returned"
    /\ fn' = "deactivate_stake_instruction"
    /\ \E s \in AllKeys, a \in AllKeys :
        LET params == [stake_pubkey |-> s, authorized_pubkey |-> a]
        IN  /\ args' = params
            /\ ret' = deactivate_stake_instruction(params)

DeactivateStake ==
    /\ pc = "idle"
    /\ pc' = "returned"
    /\ fn' = "deactivate_stake"
    /\ \E s \in UserKeys, a \in UserKeys :
        LET params == [stake_pubkey |-> s, authorized_pubkey |-> a]
        IN  /\ args' = params
            /\ ret' = deactivate_stake(params)

WithdrawStake ==
    /\ pc = "idle"
    /\ pc' = "returned"
    /\ fn' = "withdraw_stake"
    /\ \E s \in AllKeys, t \in AllKeys, w \in UserKeys, c \in UserKeys,
          l \in ValidU64 :
        LET params == [stake_pubkey |-> s, withdrawer_pubkey |-> w,
                       to_pubkey |-> t, lamports |-> l,
                       custodian_pubkey |-> c]
        IN  /\ args' = params
            /\ ret' = withdraw_stake(params)

\* the parameter records of create_stake_account, of either class
CreateStakeAccountParamsSet ==
    {[class |-> "CreateStakeAccountParams",
      from_pubkey |-> f, stake_pubkey |-> s,
      authorized |-> a, lockup |-> l, lamports |-> n] :
        f \in UserKeys, s \in UserKeys, a \in Authorizeds, l \in SomeLockups,
        n \in SomeLamports}
    \cup
    {[class |-> "CreateStakeAccountWithSeedParams",
      from_pubkey |-> f, stake_pubkey |-> s,
      base_pubkey |-> b, seed |-> seed,
      authorized |-> a, lockup |-> l, lamports |-> n] :
        f \in UserKeys, s \in UserKeys, b \in UserKeys, seed \in Seeds,
        a \in Authorizeds, l \in SomeLockups, n \in SomeLamports}

CreateStakeAccount ==
    /\ pc = "idle"
    /\ pc' = "returned"
    /\ fn' = "create_stake_account"
    /\ \E params \in CreateStakeAccountParamsSet :
        /\ args' = params
        /\ ret' = create_stake_account(params)

\* the parameter records of create_account_and_delegate_stake
CreateAccountAndDelegateStakeParamsSet ==
    {[class |-> "CreateAccountAndDelegateStakeParams",
      from_pubkey |-> f, stake_pubkey |-> s, vote_pubkey |-> v,
      authorized |-> a, lockup |-> l, lamports |-> n] :
        f \in UserKeys, s \in UserKeys, v \in UserKeys, a \in Authorizeds,
        l \in SomeLockups, n \in SomeLamports}
    \cup
    {[class |-> "CreateAccountWithSeedAndDelegateStakeParams",
      from_pubkey |-> f, stake_pubkey |-> s,
      base_pubkey |-> f, seed |-> seed, vote_pubkey |-> v,
      authorized |-> a, lockup |-> l, lamports |-> n] :
        f \in UserKeys, s \in UserKeys, v \in UserKeys, seed \in Seeds,
        a \in Authorizeds, l \in SomeLockups, n \in SomeLamports}

CreateAccountAndDelegateStake ==
    /\ pc = "idle"
    /\ pc' = "returned"
    /\ fn' = "create_account_and_delegate_stake"
    /\ \E params \in CreateAccountAndDelegateStakeParamsSet :
        /\ args' = params
        /\ ret' = create_account_and_delegate_stake(params)

TestInitializeStake ==
    /\ pc = "idle"
    /\ pc' = "returned"
    /\ fn' = "test_initialize_stake"
    /\ \E f \in UserKeys, s \in UserKeys, a \in Authorizeds,
          l \in SomeLockups :
        LET params == [from_pubkey |-> f, stake_pubkey |-> s,
                       authorized |-> a, lockup |-> l]
        IN  /\ args' = params
            /\ ret' = test_initialize_stake(params)

\* the caller takes the result; nothing of the call is kept
Done ==
    /\ pc = "returned"
    /\ pc' = "idle"
    /\ fn' = "none"
    /\ args' = None
    /\ ret' = None

Next ==
    \/ Build
    \/ Parse
    \/ RoundTrip
    \/ InitializeStake
    \/ DelegateStakeInstruction
    \/ DelegateStake
    \/ DeactivateStakeInstruction
    \/ DeactivateStake
    \/ WithdrawStake
    \/ CreateStakeAccount
    \/ CreateAccountAndDelegateStake
    \/ TestInitializeStake
    \/ Done

Spec == Init /\ [][Next]_vars

----------------------------------------------------------------------------
(* What the properties are stated with. *)

Returned(name) == pc = "returned" /\ fn = name

\* the (variant, payload) pair is of one of these variants
IsVariant(obj, variants) ==
    \E v \in variants : obj.instruction_type = Nat2Int(v)

\* b is the little-endian encoding of the unsigned magnitude m in Len(b)
\* bytes: m is the sum of b[i] * 256^(i-1), limb by limb
IsUnsignedLE(b, m) ==
    /\ \A i \in DOMAIN b : b[i] \in 0..255
    /\ \A k \in 1..(Len(b) \div 2) : b[2 * k - 1] + 256 * b[2 * k] = m[k]
    /\ \A k \in DOMAIN m : k > Len(b) \div 2 => m[k] = 0

\* u + m = 2^64, limb by limb with the carries c
SumIsPow64(u, m) ==
    \E c \in [0..4 -> {0, 1}] :
        /\ c[0] = 0
        /\ c[4] = 1
        /\ \A k \in 1..4 : u[k] + m[k] + c[k - 1] = 65536 * c[k]

\* b is the 8-byte little-endian two's complement encoding of the int x
IsSignedLE64(b, x) ==
    /\ Len(b) = 8
    /\ \A i \in DOMAIN b : b[i] \in 0..255
    /\ LET u == [k \in 1..4 |-> b[2 * k - 1] + 256 * b[2 * k]]
       IN  IF x.neg THEN x.mag[5] = 0 /\ SumIsPow64(u, x.mag)
           ELSE u = SubSeq(x.mag, 1, 4) /\ x.mag[5] = 0

\* payload_width(variant)
PayloadWidth(v) ==
    CASE v = INITIALIZE_STAKE_ACCOUNT -> 112
      [] v = DELEGATE_STAKE -> 0
      [] v = DEACTIVATE -> 0
      [] v = WITHDRAW_STAKE -> 8

KnownVariants ==
    {INITIALIZE_STAKE_ACCOUNT, DELEGATE_STAKE, DEACTIVATE, WITHDRAW_STAKE}

\* the first four bytes of data are the discriminant v
HasDiscriminant(data, v) ==
    Len(data) >= 4 /\ SubSeq(data, 1, 4) = <<v, 0, 0, 0>>

----------------------------------------------------------------------------
(* C1: round trip.  For every valid payload of INITIALIZE_STAKE_ACCOUNT,   *)
(* DELEGATE_STAKE and WITHDRAW_STAKE, parsing the bytes that build         *)
(* produced succeeds and yields the same variant and the same payload      *)
(* field values (DELEGATE_STAKE has no field: its payload parses to None). *)
C1_RoundTrip ==
    (Returned("roundtrip")
     /\ IsVariant(args, {INITIALIZE_STAKE_ACCOUNT, DELEGATE_STAKE,
                         WITHDRAW_STAKE}))
    => /\ ret.ok
       /\ ret.value.instruction_type = args.instruction_type
       /\ IF IsVariant(args, {DELEGATE_STAKE})
          THEN DOMAIN args.args = {} /\ ret.value.args = None
          ELSE ret.value.args = args.args

\* a round trip of an Initialize payload whose timestamp is negative and
\* whose epoch has its top bit set
C1_Witness ==
    /\ Returned("roundtrip")
    /\ IsVariant(args, {INITIALIZE_STAKE_ACCOUNT})
    /\ args.args.lockup.unix_timestamp = PyInt(TRUE, M_Pow63)
    /\ args.args.lockup.epoch = PyInt(FALSE, M_MaxU64)
    /\ args.args.authorized.staker # args.args.authorized.withdrawer
    /\ ret.ok

(* C2: wire format.  For every valid payload of the three variants, build  *)
(* yields the discriminant as u32 little-endian followed by the fields in  *)
(* declaration order with no padding: 116, 4 and 12 bytes.                 *)
C2_WireFormat ==
    (Returned("build")
     /\ args \in ValidInitialize \cup ValidDelegate \cup ValidWithdraw)
    => /\ ret.ok
       /\ \A i \in DOMAIN ret.bytes : ret.bytes[i] \in 0..255
       /\ IF IsVariant(args, {INITIALIZE_STAKE_ACCOUNT})
          THEN /\ Len(ret.bytes) = 116
               /\ SubSeq(ret.bytes, 1, 4) = <<0, 0, 0, 0>>
               /\ SubSeq(ret.bytes, 5, 36) = args.args.authorized.staker
               /\ SubSeq(ret.bytes, 37, 68) = args.args.authorized.withdrawer
               /\ IsSignedLE64(SubSeq(ret.bytes, 69, 76),
                               args.args.lockup.unix_timestamp)
               /\ IsUnsignedLE(SubSeq(ret.bytes, 77, 84),
                               args.args.lockup.epoch.mag)
               /\ SubSeq(ret.bytes, 85, 116) = args.args.lockup.custodian
          ELSE IF IsVariant(args, {DELEGATE_STAKE})
          THEN ret.bytes = <<1, 0, 0, 0>>
          ELSE /\ Len(ret.bytes) = 12
               /\ SubSeq(ret.bytes, 1, 4) = <<3, 0, 0, 0>>
               /\ IsUnsignedLE(SubSeq(ret.bytes, 5, 12),
                               args.args.lamports.mag)

\* a build of an Initialize payload with a negative timestamp, an epoch
\* with its top bit set and a custodian that is not the staker
C2_Witness ==
    /\ Returned("build")
    /\ args \in ValidInitialize
    /\ args.args.lockup.unix_timestamp = PyInt(TRUE, M_Mixed)
    /\ args.args.lockup.epoch = PyInt(FALSE, M_Pow63)
    /\ args.args.authorized.staker # args.args.lockup.custodian
    /\ ret.ok
    /\ Len(ret.bytes) = 116

(* C3: building a Deactivate instruction succeeds, with data 02 00 00 00   *)
(* and the accounts [stake (writable), clock sysvar (read-only),           *)
(* authorized (signer, read-only)].                                        *)
C3_DeactivateBuilds ==
    Returned("deactivate_stake_instruction")
    => /\ ret.ok
       /\ ret.value.data = <<2, 0, 0, 0>>
       /\ ret.value.keys =
              <<[pubkey |-> args.stake_pubkey, is_signer |-> FALSE,
                 is_writable |-> TRUE],
                [pubkey |-> SYSVAR_CLOCK_PUBKEY, is_signer |-> FALSE,
                 is_writable |-> FALSE],
                [pubkey |-> args.authorized_pubkey, is_signer |-> TRUE,
                 is_writable |-> FALSE]>>

C3_Witness ==
    /\ Returned("deactivate_stake_instruction")
    /\ args.stake_pubkey # args.authorized_pubkey
    /\ args.stake_pubkey \in UserKeys
    /\ ret.ok
    /\ Len(ret.value.data) = 4

(* C4: parse rejects every byte string whose first four bytes are not the  *)
(* discriminant of a known variant (0, 1, 2, 3).                           *)
C4_RejectsUnknownDiscriminant ==
    (Returned("parse")
     /\ Len(args) >= 4
     /\ \A v \in KnownVariants : ~HasDiscriminant(args, v))
    => ~ret.ok

(* C5: strict framing.  Under a known discriminant v, parse succeeds only  *)
(* on a byte string of exactly 4 + payload_width(v) bytes; a shorter one   *)
(* fails (any of fewer than 4 bytes too) and one with bytes left over      *)
(* after the payload is rejected.                                          *)
C5_StrictFraming ==
    Returned("parse")
    => /\ Len(args) < 4 => ~ret.ok
       /\ \A v \in KnownVariants :
              (HasDiscriminant(args, v) /\ ret.ok)
              => Len(args) = 4 + PayloadWidth(v)

(* C6: the instruction every single-operation builder returns is addressed *)
(* to the stake program.                                                   *)
C6_AddressedToStakeProgram ==
    (pc = "returned"
     /\ fn \in {"initialize_stake", "delegate_stake_instruction",
                "deactivate_stake_instruction", "withdraw_stake"})
    => ret.ok /\ ret.value.program_id = STAKE_PROGRAM_ID

(* C7: the account lists of initialize_stake and                           *)
(* delegate_stake_instruction: 2 references, [stake (signer, writable),    *)
(* rent sysvar (read-only)]; 6 references, [stake (writable), vote, clock, *)
(* stake history, stake config, authorized], the last the only signer and  *)
(* the first the only writable one.                                        *)
C7_AccountListShape ==
    /\ Returned("initialize_stake")
       => /\ ret.ok
          /\ Len(ret.value.keys) = 2
          /\ ret.value.keys[1] =
                 [pubkey |-> args.stake_pubkey, is_signer |-> TRUE,
                  is_writable |-> TRUE]
          /\ ret.value.keys[2] =
                 [pubkey |-> SYSVAR_RENT_PUBKEY, is_signer |-> FALSE,
                  is_writable |-> FALSE]
    /\ Returned("delegate_stake_instruction")
       => /\ ret.ok
          /\ Len(ret.value.keys) = 6
          /\ <<ret.value.keys[1].pubkey, ret.value.keys[2].pubkey,
               ret.value.keys[3].pubkey, ret.value.keys[4].pubkey,
               ret.value.keys[5].pubkey, ret.value.keys[6].pubkey>>
             = <<args.stake_pubkey, args.vote_pubkey, SYSVAR_CLOCK_PUBKEY,
                 SYSVAR_STAKE_HISTORY_PUBKEY, CONFIG_STAKE_PUBKEY,
                 args.authorized_pubkey>>
          /\ \A i \in 1..6 : ret.value.keys[i].is_signer <=> i = 6
          /\ \A i \in 1..6 : ret.value.keys[i].is_writable <=> i = 1

\* a delegate instruction of three different keys
C7_Witness ==
    /\ Returned("delegate_stake_instruction")
    /\ Cardinality({args.stake_pubkey, args.vote_pubkey,
                    args.authorized_pubkey}) = 3
    /\ args.authorized_pubkey \in UserKeys
    /\ ret.ok
    /\ Len(ret.value.keys) = 6

(* C8: create_stake_account returns exactly 2 instructions, the allocation *)
(* and then initialize; the allocation creates stake_pubkey with space     *)
(* 200, owner the stake program and params.lamports, and stake_pubkey is   *)
(* the first account of the initialize instruction; the allocation is the  *)
(* seeded one exactly when the seeded parameter record is given.           *)
C8_CompositeOrdering ==
    Returned("create_stake_account")
    => /\ ret.ok
       /\ Len(ret.value.instructions) = 2
       /\ LET alloc == ret.value.instructions[1]
              init == ret.value.instructions[2]
          IN  /\ "kind" \in DOMAIN alloc
              /\ alloc.kind \in {"create_account", "create_account_with_seed"}
              /\ alloc.kind = "create_account_with_seed"
                 <=> args.class = "CreateStakeAccountWithSeedParams"
              /\ alloc.params.new_account_pubkey = args.stake_pubkey
              /\ alloc.params.space = 200
              /\ alloc.params.program_id = STAKE_PROGRAM_ID
              /\ alloc.params.lamports = args.lamports
              /\ alloc.params.from_pubkey = args.from_pubkey
              /\ "kind" \notin DOMAIN init
              /\ init.program_id = STAKE_PROGRAM_ID
              /\ HasDiscriminant(init.data, INITIALIZE_STAKE_ACCOUNT)
              /\ init.keys[1].pubkey = alloc.params.new_account_pubkey

\* a seeded create whose payer is not the stake account
C8_Witness ==
    /\ Returned("create_stake_account")
    /\ args.class = "CreateStakeAccountWithSeedParams"
    /\ args.from_pubkey # args.stake_pubkey
    /\ ret.ok
    /\ Len(ret.value.instructions) = 2

(* C9: create_account_and_delegate_stake returns a transaction, fee payer  *)
(* from_pubkey, of exactly 3 instructions: allocation, initialize and      *)
(* delegate, all of the same stake_pubkey.                                 *)
C9_CreateAndDelegateHasThreeSteps ==
    Returned("create_account_and_delegate_stake")
    => /\ ret.ok
       /\ ret.value.fee_payer = args.from_pubkey
       /\ Len(ret.value.instructions) = 3
       /\ ret.value.instructions[1].params.new_account_pubkey
              = args.stake_pubkey
       /\ HasDiscriminant(ret.value.instructions[2].data,
                          INITIALIZE_STAKE_ACCOUNT)
       /\ ret.value.instructions[2].keys[1].pubkey = args.stake_pubkey
       /\ HasDiscriminant(ret.value.instructions[3].data, DELEGATE_STAKE)
       /\ ret.value.instructions[3].keys[1].pubkey = args.stake_pubkey

\* the keys of the account list of a returned instruction
KeysOf(ix) == {ix.keys[i].pubkey : i \in DOMAIN ix.keys}

\* C10 but for its sysvar clause: 5 references, stake (signer, writable)
\* and then the destination four times (not signer, writable); withdrawer
\* and custodian appear only when equal to stake_pubkey or to_pubkey; the
\* data is encode(WITHDRAW, {lamports})
WithdrawAccountList ==
    /\ ret.ok
    /\ Len(ret.value.keys) = 5
    /\ ret.value.keys[1] = [pubkey |-> args.stake_pubkey, is_signer |-> TRUE,
                            is_writable |-> TRUE]
    /\ \A i \in 2..5 :
           ret.value.keys[i] = [pubkey |-> args.to_pubkey,
                                is_signer |-> FALSE, is_writable |-> TRUE]
    /\ \A k \in {args.withdrawer_pubkey, args.custodian_pubkey} :
           k \in KeysOf(ret.value) => k \in {args.stake_pubkey, args.to_pubkey}
    /\ Len(ret.value.data) = 12
    /\ SubSeq(ret.value.data, 1, 4) = <<3, 0, 0, 0>>
    /\ IsUnsignedLE(SubSeq(ret.value.data, 5, 12), args.lamports.mag)

(* C10 as stated: withdraw_stake's account list is stake_pubkey and four   *)
(* times to_pubkey, withdrawer and custodian never appear unless equal to  *)
(* one of these, and no clock or stake-history sysvar appears.             *)
C10_AsStated ==
    Returned("withdraw_stake")
    => /\ WithdrawAccountList
       /\ SYSVAR_CLOCK_PUBKEY \notin KeysOf(ret.value)
       /\ SYSVAR_STAKE_HISTORY_PUBKEY \notin KeysOf(ret.value)

(* C10, amended: as stated, but the clock and stake-history sysvars, like  *)
(* withdrawer and custodian, appear only when they are themselves passed   *)
(* as stake_pubkey or to_pubkey: the builder adds no sysvar of its own.    *)
C10_WithdrawAccountList ==
    Returned("withdraw_stake")
    => /\ WithdrawAccountList
       /\ \A k \in {SYSVAR_CLOCK_PUBKEY, SYSVAR_STAKE_HISTORY_PUBKEY} :
              k \in KeysOf(ret.value)
              => k \in {args.stake_pubkey, args.to_pubkey}

\* a withdrawal to the clock sysvar's address, the withdrawer and the
\* custodian being neither the stake account nor the destination
C10_Witness ==
    /\ Returned("withdraw_stake")
    /\ args.to_pubkey = SYSVAR_CLOCK_PUBKEY
    /\ args.stake_pubkey \in UserKeys
    /\ args.withdrawer_pubkey \notin {args.stake_pubkey, args.to_pubkey}
    /\ args.custodian_pubkey \notin {args.stake_pubkey, args.to_pubkey}
    /\ args.lamports = PyInt(FALSE, M_MaxU64)
    /\ ret.ok

=============================================================================
